---- MODULE Spec2Model ----
(***************************************************************************)
(* Toon by Eneco app for Homey: the session manager (ToonApp), the retry   *)
(* runner (Util.wrapAsyncWithRetry), the per-device webhook subscription   *)
(* scheduler, the status reconciler and the capability debounce            *)
(* (ToonDevice).                                                           *)
(*                                                                         *)
(* The module holds several specifications over one set of variables:      *)
(*   SpecApp       login / logout / isAuthenticated / migration / rebind   *)
(*   SpecRetry     Util.wrapAsyncWithRetry on its own                      *)
(*   SpecSub       registerWebhookSubscription, renewal timer, teardown    *)
(*   SpecRecon     processStatusUpdate and its three sub-merges            *)
(*   SpecDebounce  ToonDevice.debounce                                     *)
(*   SpecWrite     setTargetTemperature / updateState thermostat writes    *)
(*   SpecClient    ToonOAuth2Client.registerWebhookSubscription            *)
(* A specification leaves the variables of the other components at their   *)
(* initial value.                                                          *)
(***************************************************************************)
EXTENDS Integers, Sequences, FiniteSets, Bags, TLC

VARIABLES
    \* ---- ToonApp (src/app.js) ----
    sessions,     \* keys of the persisted OAuth2 sessions, in insertion order
    clients,      \* session ids that have an OAuth2Client instance in memory
    login,        \* per login() call: position of its 'code' handler and outcome
    resets,       \* resetOAuth2Client calls in flight
    devAvailable, \* per managed device: available (TRUE) / unavailable (FALSE)
    devClient,    \* per managed device: session id of the bound client, 0 = none
    devLegacy,    \* per managed device: legacy 'oauth2Account' store value present
    appCall,      \* the isAuthenticated()/logout() call that returned in the last step, if any
    handled       \* the outcome of the 'code' handler that finished in the last step, if any

VARIABLES
    \* ---- Util.wrapAsyncWithRetry (src/unnamed/part_002), run on its own ----
    retryArgs,    \* the arguments of the call: times and interval
    run           \* the state of the call's closure and of its promise

VARIABLES
    \* ---- ToonDevice: reconciliation (src/unnamed/part_002) ----
    dev,          \* the fields of one ToonDevice (see processStatusUpdate)
    processed,    \* payloads handed to processStatusUpdate so far
    recon         \* what the last processStatusUpdate call did

VARIABLES
    \* ---- ToonDevice: webhook subscription (src/unnamed/part_002) ----
    registering,  \* this._registeringWebhooks
    warning,      \* the device warning is set
    loops,        \* the registerWebhookSubscription calls in flight (a bag)
    init,         \* the position of onOAuth2Init
    teardown,     \* the position of onOAuth2Deleted
    regCall       \* what the last step did to a registerWebhookSubscription call

VARIABLES
    \* ---- ToonDevice.debounce (src/unnamed/part_002) ----
    closure,      \* timer and resolves of one debounced listener
    timeouts,     \* the timeouts of the listener that are set and not yet run
    sinceCall,    \* milliseconds since the listener was last called (at most the window)
    calls,        \* history: the calls of the listener
    invoked       \* history: the arguments of each call of fn

VARIABLES
    \* ---- ToonDevice: thermostat writes (src/unnamed/part_002) ----
    writes,       \* the oAuth2Client.updateState requests not yet answered (a bag)
    started,      \* setTargetTemperature / updateState calls made so far
    written       \* what the last step did to a write call

VARIABLES
    \* ---- ToonOAuth2Client.registerWebhookSubscription (src/app.js) ----
    provider,     \* the provider's side of one agreement
    clientCalls,  \* the registerWebhookSubscription({id}) calls in flight (a bag)
    issued,       \* registerWebhookSubscription({id}) calls made so far
    clientCall    \* the call that ended in the last step, if any

appVars == <<sessions, clients, login, resets, devAvailable, devClient, devLegacy, appCall, handled>>
retryVars == <<retryArgs, run>>

reconVars == <<dev, processed, recon>>

subVars == <<registering, warning, loops, init, teardown, regCall>>

debounceVars == <<closure, timeouts, sinceCall, calls, invoked>>

writeVars == <<writes, started, written>>

clientVars == <<provider, clientCalls, issued, clientCall>>

vars == <<appVars, retryVars, reconVars, subVars, debounceVars, writeVars, clientVars>>
nonAppVars == <<retryVars, reconVars, subVars, debounceVars, writeVars, clientVars>>
nonRetryVars == <<appVars, reconVars, subVars, debounceVars, writeVars, clientVars>>
nonReconVars == <<appVars, retryVars, subVars, debounceVars, writeVars, clientVars>>
nonDeviceVars == <<appVars, retryVars, debounceVars, writeVars, clientVars>>
nonDebounceVars == <<appVars, retryVars, reconVars, subVars, writeVars, clientVars>>
nonWriteVars == <<appVars, retryVars, subVars, debounceVars, clientVars>>
nonClientVars == <<appVars, retryVars, reconVars, subVars, debounceVars, writeVars>>

-----------------------------------------------------------------------------
(* Bounds *)

\* login() calls in one behaviour (SpecSession)
MaxLogins == 2
\* managed Toon devices (SpecFleet)
NumDevices == 2
\* payloads one device is handed in one behaviour
MaxPayloads == 2
\* calls of one debounced listener in one behaviour
MaxCalls == 3
\* registerWebhookSubscription calls of one device that may be in flight at once
MaxLoops == 2

\* The login slots and the devices of a behaviour are those its initial state
\* holds.
Logins == DOMAIN login
Devices == DOMAIN devAvailable
\* session ids: enough for every client that can exist at once
SessionIds == 1..(MaxLogins + NumDevices + 1)

-----------------------------------------------------------------------------
(* Sequence helpers *)

RECURSIVE SeqRemove(_, _)
SeqRemove(s, x) ==
    IF s = <<>> THEN <<>>
    ELSE IF Head(s) = x THEN SeqRemove(Tail(s), x)
    ELSE <<Head(s)>> \o SeqRemove(Tail(s), x)

SeqSet(s) == {s[i] : i \in DOMAIN s}

-----------------------------------------------------------------------------
(* homey-oauth2app's session store, as ToonApp uses it *)

\* client.save(): writes the session under its id; an existing key keeps its place
saveOAuth2Client(store, sid) ==
    IF sid \in SeqSet(store) THEN store ELSE Append(store, sid)

\* deleteOAuth2Client({sessionId}): removes the key from storage
deleteOAuth2Client(store, sid) == SeqRemove(store, sid)

\* Ids something still refers to
UsedIds ==
    SeqSet(sessions) \cup clients \cup {devClient[d] : d \in Devices}
        \cup {r.sid : r \in resets} \cup {login[l].client : l \in Logins}

\* OAuth2Util.getRandomId(): a uuid, so an id nothing refers to. Which one is
\* immaterial, and the least unused id stands for it.
FreshIds ==
    LET free == SessionIds \ UsedIds IN
    IF free = {} THEN {} ELSE {CHOOSE i \in free : \A j \in free : i <= j}

-----------------------------------------------------------------------------
(* ToonApp._getSession: "throw" when more than one session is stored, the  *)
(* stored sessions when exactly one, null otherwise                        *)

GetSessionFirstOfMany(store) ==
    IF Len(store) >= 1 THEN "sessions" ELSE "null"

_getSession(store) ==
    IF Len(store) > 1 THEN "throw"
    ELSE IF Len(store) = 1 THEN "sessions"
    ELSE "null"

\* ToonApp.isAuthenticated: !!session, or rethrows
isAuthenticated(store) ==
    LET session == _getSession(store) IN
    IF session = "throw" THEN "throw"
    ELSE IF session = "sessions" THEN "true"
    ELSE "false"

\* op/result: the call and how it ended; sessionsBefore/availableBefore: the
\* store and the availabilities it started from; prev: op and result of the
\* call that returned in the step before it, if that step was a call
NoCall == [op |-> "none", result |-> "none", sessionsBefore |-> <<>>,
           availableBefore |-> <<>>, prev |-> <<"none", "none">>,
           dev |-> 0, sid |-> 0, boundBefore |-> 0]

NoOutcome == [login |-> 0, sid |-> 0, exchanged |-> "none", error |-> FALSE,
              authorized |-> FALSE, saved |-> FALSE]

\* what a step that is neither a call nor a 'code' handler leaves in the
\* two last-step records
Quiet == appCall' = NoCall /\ handled' = NoOutcome /\ UNCHANGED nonAppVars

IsAuthenticated ==
    /\ appCall' = [op |-> "isAuthenticated", result |-> isAuthenticated(sessions),
                   sessionsBefore |-> sessions, availableBefore |-> devAvailable,
                   prev |-> <<appCall.op, appCall.result>>,
                   dev |-> 0, sid |-> 0, boundBefore |-> 0]
    /\ handled' = NoOutcome
    /\ UNCHANGED nonAppVars
    /\ UNCHANGED <<sessions, clients, login, resets, devAvailable, devClient, devLegacy>>

-----------------------------------------------------------------------------
(* ToonApp.login *)

IdleLogin == [pc |-> "idle", client |-> 0]

\* login() up to oauth2Callback.generate(): reuse the first saved client, or
\* create a temporary one under a fresh random id
Login(l) ==
    /\ login[l].pc = "idle"
    /\ \A k \in Logins : k < l => login[k].pc # "idle"    \* slots are taken in order
    /\ \E cid \in SessionIds :
          /\ IF Len(sessions) >= 1 THEN cid = Head(sessions) ELSE cid \in FreshIds
          /\ clients' = clients \cup {cid}
          /\ login' = [login EXCEPT ![l] = [pc |-> "awaitCode", client |-> cid]]
    /\ Quiet
    /\ UNCHANGED <<sessions, resets, devAvailable, devClient, devLegacy>>

\* the 'code' event: the handler starts client.getTokenByCode({ code })
LoginCode(l) ==
    /\ login[l].pc = "awaitCode"
    /\ login' = [login EXCEPT ![l].pc = "exchanging"]
    /\ Quiet
    /\ UNCHANGED <<sessions, clients, resets, devAvailable, devClient, devLegacy>>

\* the forEach of the 'code' handler without its later devices
ResetsStoppedAtFirst(sid) ==
    {[dev |-> d, sid |-> sid, pc |-> "store"] : d \in {e \in Devices : e = 1}}

\* lines 101-106: resetOAuth2Client({sessionId, configId}) is called on every
\* device; each call runs up to its first await
ResetsStarted(sid) == {[dev |-> d, sid |-> sid, pc |-> "store"] : d \in Devices}

\* The rest of the 'code' handler, from the outcome of the exchange on:
\* a failed exchange emits 'error' and the handler goes on; the provider's
\* session id is sid; the temporary client is destroyed (its 'destroy' event
\* deletes its session); the final client is created and saved unless a client
\* for sid exists already (createOAuth2Client throws, 'error' is emitted);
\* 'authorized' is emitted; resetOAuth2Client is started on every device.
CodeHandler(l, ok, sid) ==
    LET cid == login[l].client
        afterDestroy == deleteOAuth2Client(sessions, cid)
        clientsAfter == clients \ {cid}
        created == sid \notin clientsAfter
    IN
    /\ login[l].pc = "exchanging"
    /\ sessions' = IF created THEN saveOAuth2Client(afterDestroy, sid) ELSE afterDestroy
    /\ clients' = clientsAfter \cup {sid}
    /\ login' = [login EXCEPT ![l] = [pc |-> "done", client |-> 0]]
    /\ handled' = [login |-> l, sid |-> sid,
                   exchanged |-> IF ok THEN "ok" ELSE "failed",
                   error |-> (~ok) \/ (~created), authorized |-> TRUE,
                   saved |-> created]
    /\ resets' = resets \cup ResetsStarted(sid)
    /\ appCall' = NoCall
    /\ UNCHANGED nonAppVars
    /\ UNCHANGED <<devAvailable, devClient, devLegacy>>

\* session.id of client.onGetOAuth2SessionInformation(), which the client
\* class does not override: a fresh random id (the temporary client, destroyed
\* before the final one is created, no longer counts as using its id)
ProviderIds(l) ==
    LET cid == login[l].client
        held == SeqSet(deleteOAuth2Client(sessions, cid)) \cup (clients \ {cid})
                    \cup {devClient[d] : d \in Devices} \cup {r.sid : r \in resets}
                    \cup {login[k].client : k \in Logins \ {l}}
        free == SessionIds \ held
    IN
    IF free = {} THEN {} ELSE {CHOOSE i \in free : \A j \in free : i <= j}

LoginExchanged(l) == \E ok \in BOOLEAN, sid \in ProviderIds(l) : CodeHandler(l, ok, sid)

-----------------------------------------------------------------------------
(* ToonDevice.resetOAuth2Client, started by the 'code' handler *)

\* after the two setStoreValue calls: bind the client of the session if the
\* app has one, else mark the device unavailable and return
ResetBind(r) ==
    /\ r \in resets /\ r.pc = "store"
    /\ IF r.sid \in clients
       THEN /\ devClient' = [devClient EXCEPT ![r.dev] = r.sid]
            /\ resets' = (resets \ {r}) \cup {[r EXCEPT !.pc = "agreements"]}
            /\ UNCHANGED devAvailable
       ELSE /\ devAvailable' = [devAvailable EXCEPT ![r.dev] = FALSE]
            /\ resets' = resets \ {r}
            /\ UNCHANGED devClient
    /\ appCall' = [op |-> "resetOAuth2Client",
                   result |-> IF r.sid \in clients THEN "bound" ELSE "noClient",
                   sessionsBefore |-> sessions, availableBefore |-> devAvailable,
                   prev |-> <<appCall.op, appCall.result>>,
                   dev |-> r.dev, sid |-> r.sid, boundBefore |-> devClient[r.dev]]
    /\ handled' = NoOutcome
    /\ UNCHANGED nonAppVars
    /\ UNCHANGED <<sessions, clients, login, devLegacy>>

\* getAgreements() answered: available iff the device's agreementId is listed;
\* a rejected call ends resetOAuth2Client with the availability untouched
ResetAgreements(r, outcome) ==
    /\ r \in resets /\ r.pc = "agreements"
    /\ resets' = resets \ {r}
    /\ devAvailable' = IF outcome = "rejected" THEN devAvailable
                       ELSE [devAvailable EXCEPT ![r.dev] = (outcome = "listed")]
    /\ appCall' = [op |-> "resetOAuth2Client", result |-> outcome,
                   sessionsBefore |-> sessions, availableBefore |-> devAvailable,
                   prev |-> <<appCall.op, appCall.result>>,
                   dev |-> r.dev, sid |-> r.sid, boundBefore |-> devClient[r.dev]]
    /\ handled' = NoOutcome
    /\ UNCHANGED nonAppVars
    /\ UNCHANGED <<sessions, clients, login, devClient, devLegacy>>

ResetAnswered == \E r \in resets, o \in {"listed", "notListed", "rejected"} : ResetAgreements(r, o)

-----------------------------------------------------------------------------
(* ToonApp.logout *)

\* Object.keys(null) throws when no session is stored; _getSession throws on
\* more than one. Otherwise the session is deleted and every device is marked
\* unavailable.
LogoutSkipsUnavailable(store, avail) ==
    LET session == _getSession(store) IN
    IF session # "sessions" \/ \E d \in Devices : ~avail[d]
    THEN [result |-> "throw", sessions |-> store, available |-> avail, deleted |-> 0]
    ELSE [result |-> "ok", sessions |-> deleteOAuth2Client(store, Head(store)),
          available |-> [d \in Devices |-> FALSE], deleted |-> Head(store)]

logout(store, avail) ==
    LET session == _getSession(store) IN
    IF session # "sessions"
    THEN [result |-> "throw", sessions |-> store, available |-> avail, deleted |-> 0]
    ELSE [result |-> "ok", sessions |-> deleteOAuth2Client(store, Head(store)),
          available |-> [d \in Devices |-> FALSE], deleted |-> Head(store)]

Logout ==
    LET out == logout(sessions, devAvailable) IN
    /\ sessions' = out.sessions
    /\ clients' = clients \ {out.deleted}
    /\ devAvailable' = out.available
    /\ appCall' = [op |-> "logout", result |-> out.result,
                   sessionsBefore |-> sessions, availableBefore |-> devAvailable,
                   prev |-> <<appCall.op, appCall.result>>,
                   dev |-> 0, sid |-> 0, boundBefore |-> 0]
    /\ handled' = NoOutcome
    /\ UNCHANGED nonAppVars
    /\ UNCHANGED <<login, resets, devClient, devLegacy>>

-----------------------------------------------------------------------------
(* ToonDevice.onOAuth2Migrate / onOAuth2MigrateSuccess: a device that still *)
(* holds the 2.0.x 'oauth2Account' store value gets a session under a fresh *)
(* random id, which the framework saves; the legacy value is then unset.    *)

Migrate(d) ==
    /\ devLegacy[d]
    /\ \E sid \in FreshIds :
          /\ sessions' = saveOAuth2Client(sessions, sid)
          /\ clients' = clients \cup {sid}
          /\ devClient' = [devClient EXCEPT ![d] = sid]
    /\ devLegacy' = [devLegacy EXCEPT ![d] = FALSE]
    /\ Quiet
    /\ UNCHANGED <<login, resets, devAvailable>>

-----------------------------------------------------------------------------
(* Util.wrapAsyncWithRetry(method, times, interval)                        *)
(*                                                                         *)
(* The closure holds `retries`; the promise is pending while the method is *)
(* running ("calling") or Util.wait is pending ("waiting"), and settles     *)
(* once ("resolved" / "rejected"). calls, failures, waits and lastFailure  *)
(* record what the call did: the invocations of the method, those that     *)
(* failed, the wait times in order, and the last error the method gave.    *)

\* the interval argument: a number, or a function of the retry count
IntervalPolicies == {"zero", "linear100", "backoff"}

RECURSIVE Pow2(_)
Pow2(n) == IF n = 0 THEN 1 ELSE 2 * Pow2(n - 1)

\* typeof interval === 'function' ? interval(retries) : interval
\*   "zero"      the default interval = 0
\*   "linear100" n => 100 * n
\*   "backoff"   retryCount => 6000 * (2 ** retryCount)
waitTime(interval, retries) ==
    CASE interval = "zero" -> 0
      [] interval = "linear100" -> 100 * retries
      [] interval = "backoff" -> 6000 * Pow2(retries)

NotRunning == [pc |-> "none", retries |-> 0, calls |-> 0, failures |-> 0,
               waits |-> <<>>, lastFailure |-> "none", settled |-> "none"]

\* new Promise(...) up to the first executeMethod(): the method is running
executeFirst == [NotRunning EXCEPT !.pc = "calling", !.calls = 1]

\* method().then(resolve)
onFulfilled(r, value) == [r EXCEPT !.pc = "resolved", !.settled = value]

\* the .catch handler, with one retry too many: times >= retries
CatchOneRetryTooMany(r, times, interval, err) ==
    IF times >= r.retries
    THEN [r EXCEPT !.pc = "waiting", !.retries = @ + 1, !.failures = @ + 1,
                   !.lastFailure = err,
                   !.waits = Append(@, waitTime(interval, r.retries + 1))]
    ELSE [r EXCEPT !.pc = "rejected", !.failures = @ + 1, !.lastFailure = err,
                   !.settled = err]

\* the .catch handler: retry while times > retries, else reject(err)
onRejected(r, times, interval, err) ==
    IF times > r.retries
    THEN [r EXCEPT !.pc = "waiting", !.retries = @ + 1, !.failures = @ + 1,
                   !.lastFailure = err,
                   !.waits = Append(@, waitTime(interval, r.retries + 1))]
    ELSE [r EXCEPT !.pc = "rejected", !.failures = @ + 1, !.lastFailure = err,
                   !.settled = err]

\* Util.wait(waitTime).then(executeMethod)
executeAgain(r) == [r EXCEPT !.pc = "calling", !.calls = @ + 1]

\* the values and errors the method of SpecRetry gives
Values == {"v1", "v2"}
Errors == {"e1", "e2"}

WrapAsyncWithRetry ==
    /\ run.pc = "none"
    /\ run' = executeFirst
    /\ UNCHANGED retryArgs
    /\ UNCHANGED nonRetryVars

MethodResolves ==
    /\ run.pc = "calling"
    /\ \E v \in Values : run' = onFulfilled(run, v)
    /\ UNCHANGED retryArgs
    /\ UNCHANGED nonRetryVars

MethodRejects ==
    /\ run.pc = "calling"
    /\ \E e \in Errors : run' = onRejected(run, retryArgs.times, retryArgs.interval, e)
    /\ UNCHANGED retryArgs
    /\ UNCHANGED nonRetryVars

WaitElapsed ==
    /\ run.pc = "waiting"
    /\ run' = executeAgain(run)
    /\ UNCHANGED retryArgs
    /\ UNCHANGED nonRetryVars

\* largest `times` argument SpecRetry starts from
MaxTimes == 3

RetryIdle ==
    /\ retryArgs = [times |-> 0, interval |-> "zero"]
    /\ run = NotRunning

InitRetry ==
    /\ retryArgs \in [times : 0..MaxTimes, interval : IntervalPolicies]
    /\ run = NotRunning

NextRetry ==
    \/ WrapAsyncWithRetry
    \/ MethodResolves
    \/ MethodRejects
    \/ WaitElapsed

-----------------------------------------------------------------------------
(* JavaScript values of the payload fields: undefined, a number, or a      *)
(* value that is not a number (a string)                                   *)

Undefined == [type |-> "undefined", v |-> 0]
Num(n) == [type |-> "number", v |-> n]
Str == [type |-> "string", v |-> 0]

\* typeof x === 'number'
IsNumber(x) == x.type = "number"

-----------------------------------------------------------------------------
(* TEMPERATURE_STATES and ToonDevice.getKey *)

TEMPERATURE_STATES ==
    <<[key |-> "comfort", val |-> 0], [key |-> "home", val |-> 1],
      [key |-> "sleep", val |-> 2], [key |-> "away", val |-> 3],
      [key |-> "none", val |-> -1]>>

\* getKey falling back on the sentinel preset when no key matches
GetKeyOrNone(obj, val) ==
    LET hits == {i \in DOMAIN obj : obj[i].val = val} IN
    IF hits = {} THEN "none"
    ELSE obj[CHOOSE i \in hits : \A j \in hits : i <= j].key

\* Object.keys(obj).find(key => obj[key] === val): the first key whose value
\* is val, undefined when there is none
getKey(obj, val) ==
    LET hits == {i \in DOMAIN obj : obj[i].val = val} IN
    IF hits = {} THEN "undefined"
    ELSE obj[CHOOSE i \in hits : \A j \in hits : i <= j].key

-----------------------------------------------------------------------------
(* Number conversions *)

\* x / 1000 for x >= 0, as <<whole, thousandths>>: 800 is <<0, 800>> = 0.8
DivThousand(x) == <<x \div 1000, x % 1000>>

\* Math.round((x / 100) * 10) / 10, in tenths: 2051 is 205 = 20.5
RoundToTenth(x) == (x + 5) \div 10

-----------------------------------------------------------------------------
(* The capability updates of the three sub-merges. An update is a pair     *)
(* <<capability, value>>; setCapabilityValue is called for each, and its    *)
(* rejection is caught (.catch(this.error)).                               *)

\* _processPowerUsageData, with the cumulative update made on dayUsage alone
PowerUpdatesDayOnly(data) ==
    (IF IsNumber(data.value) THEN {<<"measure_power", data.value.v>>} ELSE {})
    \cup
    (IF IsNumber(data.dayUsage)
     THEN {<<"meter_power", DivThousand(data.dayUsage.v + data.dayLowUsage.v)>>}
     ELSE {})

\* _processPowerUsageData
PowerUpdates(data) ==
    (IF IsNumber(data.value) THEN {<<"measure_power", data.value.v>>} ELSE {})
    \cup
    (IF IsNumber(data.dayUsage) /\ IsNumber(data.dayLowUsage)
     THEN {<<"meter_power", DivThousand(data.dayUsage.v + data.dayLowUsage.v)>>}
     ELSE {})

\* _processGasUsageData
GasUpdates(data) ==
    IF IsNumber(data.dayUsage)
    THEN {<<"meter_gas", DivThousand(data.dayUsage.v)>>}
    ELSE {}

\* _processThermostatInfoData: the setCapabilityValue calls it makes. The
\* humidity value is set only when the capability exists already.
ThermostatUpdates(data, humidityExposed) ==
    (IF IsNumber(data.currentDisplayTemp)
     THEN {<<"measure_temperature", RoundToTenth(data.currentDisplayTemp.v)>>} ELSE {})
    \cup
    (IF IsNumber(data.currentSetpoint)
     THEN {<<"target_temperature", RoundToTenth(data.currentSetpoint.v)>>} ELSE {})
    \cup
    (IF IsNumber(data.activeState)
     THEN {<<"temperature_state", getKey(TEMPERATURE_STATES, data.activeState.v)>>} ELSE {})
    \cup
    (IF IsNumber(data.currentHumidity) /\ humidityExposed
     THEN {<<"measure_humidity", data.currentHumidity.v>>} ELSE {})

\* _processThermostatInfoData calls addCapability('measure_humidity')
AddsHumidity(data, humidityExposed) ==
    IsNumber(data.currentHumidity) /\ ~humidityExposed

CapNames == {"measure_power", "meter_power", "meter_gas", "measure_temperature",
             "target_temperature", "temperature_state", "measure_humidity"}

\* A capability value: set or not, and the value. Cumulative meters hold
\* <<whole, thousandths>>, temperature_state a preset name, temperatures
\* tenths of a degree, the others the number as given.
NoValue(c) ==
    [set |-> FALSE,
     v |-> CASE c \in {"meter_power", "meter_gas"} -> <<0, 0>>
             [] c = "temperature_state" -> ""
             [] OTHER -> 0]

Value(x) == [set |-> TRUE, v |-> x]

\* per capability, the value of the update made, if one was made
Emitted(updates) ==
    [c \in CapNames |->
        IF \E u \in updates : u[1] = c
        THEN Value((CHOOSE u \in updates : u[1] = c)[2])
        ELSE NoValue(c)]

\* the capability values after the updates, those in `rejected` having failed
ApplyUpdates(values, updates, rejected) ==
    [c \in CapNames |->
        IF c \notin rejected /\ \E u \in updates : u[1] = c
        THEN Value((CHOOSE u \in updates : u[1] = c)[2])
        ELSE values[c]]

-----------------------------------------------------------------------------
(* The loop over thermostatStates.state: for (const { id, tempValue } of …) *)
(* A null entry cannot be destructured: the loop throws there, after the    *)
(* entries before it have been stored.                                     *)

PresetIds == {0, 1, 2, 3}

RECURSIVE StoreStates(_, _)
StoreStates(map, entries) ==
    IF entries = <<>> THEN [map |-> map, threw |-> FALSE]
    ELSE IF Head(entries).null THEN [map |-> map, threw |-> TRUE]
    ELSE StoreStates([map EXCEPT ![Head(entries).id] = Head(entries).tempValue],
                     Tail(entries))

-----------------------------------------------------------------------------
(* The renewal timer: clearTimeout / setTimeout                            *)

TimerIds == 1..(MaxPayloads + 1)

\* clearTimeout(handle)
clearTimeout(pending, handle) == {t \in pending : t.id # handle}

\* setTimeout returns a new handle: one no pending timeout holds, and not the
\* handle the device holds
FreshTimerId(pending, handle) ==
    LET free == TimerIds \ ({t.id : t \in pending} \cup {handle}) IN
    CHOOSE i \in free : \A j \in free : i <= j

\* processStatusUpdate, lines 355-361, without the clearTimeout
ArmWithoutClear(pending, handle, ttl) ==
    LET id == FreshTimerId(pending, handle) IN
    [timers |-> pending \cup {[id |-> id, ms |-> ttl * 1000]}, handle |-> id]

\* processStatusUpdate, lines 355-361: cancel the armed timer, arm a new one
ArmRenewal(pending, handle, ttl) ==
    LET cleared == IF handle # 0 THEN clearTimeout(pending, handle) ELSE pending
        id == FreshTimerId(cleared, handle)
    IN [timers |-> cleared \cup {[id |-> id, ms |-> ttl * 1000]}, handle |-> id]

-----------------------------------------------------------------------------
(* ToonDevice.processStatusUpdate                                          *)
(*                                                                         *)
(* A payload p:                                                            *)
(*   hasDataSet         data && data.body && data.body.updateDataSet       *)
(*   commonName         "absent", "own" (this.getData().id) or "other"     *)
(*   timeToLiveSeconds  a JavaScript value                                 *)
(*   thermostatStates, powerUsage, gasUsage, thermostatInfo: sections of   *)
(*                      updateDataSet, each present or not                 *)
(*                                                                         *)
(* The device d is the record of its fields:                               *)
(*   temperatureStatesMap  preset id -> tempValue                          *)
(*   powerUsage, gasUsage, thermostatInfo   the last section, verbatim     *)
(*   caps                  the value of each capability                    *)
(*   hasHumidity           hasCapability('measure_humidity')               *)
(*   addingHumidity        an addCapability('measure_humidity') is pending *)
(*   timers                the pending timeouts of the renewal timer       *)
(*   timeoutHandle         this._webhookRegistrationTimeout, 0 = undefined *)

EmptyPower == [value |-> Undefined, dayUsage |-> Undefined, dayLowUsage |-> Undefined]
EmptyGas == [dayUsage |-> Undefined]
EmptyInfo == [currentDisplayTemp |-> Undefined, currentSetpoint |-> Undefined,
              activeState |-> Undefined, currentHumidity |-> Undefined,
              programState |-> Undefined]

\* the fields after onOAuth2Init has stored the empty raw data objects
NewDevice ==
    [temperatureStatesMap |-> [i \in PresetIds |-> Undefined],
     powerUsage |-> EmptyPower,
     gasUsage |-> EmptyGas,
     thermostatInfo |-> EmptyInfo,
     caps |-> [c \in CapNames |-> NoValue(c)],
     hasHumidity |-> FALSE,
     addingHumidity |-> FALSE,
     timers |-> {},
     timeoutHandle |-> 0]

\* the commonName check, never ignoring
NeverForeign(p) == FALSE

\* typeof commonName === 'string' && commonName !== this.getData().id
IsForeign(p) == p.commonName = "other"

\* what a call did: its outcome, the sections it processed and the capability
\* updates it made
Ignored(status) == [status |-> status, sections |-> {}, emitted |-> Emitted({})]

\* processStatusUpdate(data) on device d: the device after the call and what
\* the call did
processStatusUpdate(d, p, rejected) ==
    IF ~p.hasDataSet
    THEN [dev |-> d, did |-> Ignored("heartbeat")]
    ELSE IF IsForeign(p)
    THEN [dev |-> d, did |-> Ignored("foreign")]
    ELSE
    LET armed == IF IsNumber(p.timeToLiveSeconds)
                 THEN ArmRenewal(d.timers, d.timeoutHandle, p.timeToLiveSeconds.v)
                 ELSE [timers |-> d.timers, handle |-> d.timeoutHandle]
        states == IF p.thermostatStates.present
                  THEN StoreStates(d.temperatureStatesMap, p.thermostatStates.state)
                  ELSE [map |-> d.temperatureStatesMap, threw |-> FALSE]
        \* a throw in the loop leaves the later sections unprocessed
        doPower == ~states.threw /\ p.powerUsage.present
        doGas == ~states.threw /\ p.gasUsage.present
        doInfo == ~states.threw /\ p.thermostatInfo.present
        updates ==
            (IF doPower THEN PowerUpdates(p.powerUsage.data) ELSE {})
            \cup (IF doGas THEN GasUpdates(p.gasUsage.data) ELSE {})
            \cup (IF doInfo THEN ThermostatUpdates(p.thermostatInfo.data, d.hasHumidity)
                  ELSE {})
    IN
    [dev |->
        [temperatureStatesMap |-> states.map,
         powerUsage |-> IF doPower THEN p.powerUsage.data ELSE d.powerUsage,
         gasUsage |-> IF doGas THEN p.gasUsage.data ELSE d.gasUsage,
         thermostatInfo |-> IF doInfo THEN p.thermostatInfo.data ELSE d.thermostatInfo,
         caps |-> ApplyUpdates(d.caps, updates, rejected),
         hasHumidity |-> d.hasHumidity,
         addingHumidity |->
            (d.addingHumidity
             \/ (doInfo /\ AddsHumidity(p.thermostatInfo.data, d.hasHumidity))),
         timers |-> armed.timers,
         timeoutHandle |-> armed.handle],
     did |-> [status |-> IF states.threw THEN "threw" ELSE "accepted",
              sections |-> (IF doPower THEN {"powerUsage"} ELSE {})
                           \cup (IF doGas THEN {"gasUsage"} ELSE {})
                           \cup (IF doInfo THEN {"thermostatInfo"} ELSE {}),
              emitted |-> Emitted(updates)]]

\* recon: what the payload of the last call carried (its commonName, whether
\* it had a data set, a numeric timeToLiveSeconds, which sections), what the
\* call did, and whether any field of the device changed
NoRecon ==
    [commonName |-> "absent", hasDataSet |-> FALSE, ttl |-> FALSE,
     timeToLiveSeconds |-> Undefined, carried |-> {},
     did |-> Ignored("none"), changed |-> FALSE]

Carried(p) ==
    (IF p.thermostatStates.present THEN {"thermostatStates"} ELSE {})
    \cup (IF p.powerUsage.present THEN {"powerUsage"} ELSE {})
    \cup (IF p.gasUsage.present THEN {"gasUsage"} ELSE {})
    \cup (IF p.thermostatInfo.present THEN {"thermostatInfo"} ELSE {})

ProcessStatusUpdate(p, rejected) ==
    /\ processed < MaxPayloads
    /\ processed' = processed + 1
    /\ \E out \in {processStatusUpdate(dev, p, rejected)} :
        \* a rejection is of an update the call makes
        /\ rejected # {} => \E c \in rejected : out.did.emitted[c].set
        /\ dev' = out.dev
        /\ recon' = [commonName |-> p.commonName, hasDataSet |-> p.hasDataSet,
                     ttl |-> IsNumber(p.timeToLiveSeconds),
                            timeToLiveSeconds |-> p.timeToLiveSeconds, carried |-> Carried(p),
                     did |-> out.did, changed |-> (out.dev # dev)]
    /\ UNCHANGED nonReconVars

\* the pending addCapability('measure_humidity') resolves
AddCapabilityDone ==
    /\ dev.addingHumidity
    /\ dev' = [dev EXCEPT !.addingHumidity = FALSE, !.hasHumidity = TRUE]
    /\ UNCHANGED <<processed, recon>>
    /\ UNCHANGED nonReconVars

-----------------------------------------------------------------------------
(* The payloads of SpecRecon *)

NoSection == [present |-> FALSE]
Section(data) == [present |-> TRUE, data |-> data]

PowerData ==
    [value : {Undefined, Num(250)}, dayUsage : {Undefined, Num(500)},
     dayLowUsage : {Undefined, Num(300), Str}]

GasData == [dayUsage : {Undefined, Num(1000), Str}]

ActiveStates == {Undefined, Num(0), Num(1), Num(2), Num(3), Num(-1), Num(99)}

InfoData ==
    {[currentDisplayTemp |-> Undefined, currentSetpoint |-> Undefined,
      activeState |-> a, currentHumidity |-> Undefined,
      programState |-> Undefined] : a \in ActiveStates}
    \cup
    {[currentDisplayTemp |-> Num(2051), currentSetpoint |-> Num(1950),
      activeState |-> a, currentHumidity |-> Num(45),
      programState |-> Num(1)] : a \in ActiveStates}

Entry(id, t) == [null |-> FALSE, id |-> id, tempValue |-> Num(t)]
NullEntry == [null |-> TRUE, id |-> 0, tempValue |-> Undefined]

GoodStates == [present |-> TRUE, state |-> <<Entry(1, 2000), Entry(3, 1500)>>]
BadStates == [present |-> TRUE, state |-> <<Entry(0, 2100), NullEntry, Entry(2, 1600)>>]

Envelopes ==
    [hasDataSet : {TRUE}, commonName : {"own", "other"},
     timeToLiveSeconds : {Undefined, Num(3600)}]

\* a payload that names no display
Anonymous == [hasDataSet |-> TRUE, commonName |-> "absent", timeToLiveSeconds |-> Num(60)]

Payload(e, states, power, gas, info) ==
    [hasDataSet |-> e.hasDataSet, commonName |-> e.commonName,
     timeToLiveSeconds |-> e.timeToLiveSeconds,
     thermostatStates |-> states, powerUsage |-> power, gasUsage |-> gas,
     thermostatInfo |-> info]

Heartbeat ==
    Payload([hasDataSet |-> FALSE, commonName |-> "absent", timeToLiveSeconds |-> Undefined],
            NoSection, NoSection, NoSection, NoSection)

ReconPayloads ==
    {Heartbeat}
    \cup {Payload(e, NoSection, Section(d), NoSection, NoSection) :
            e \in Envelopes, d \in PowerData}
    \cup {Payload(e, NoSection, NoSection, Section(d), NoSection) :
            e \in Envelopes, d \in GasData}
    \cup {Payload(e, NoSection, NoSection, NoSection, Section(d)) :
            e \in Envelopes, d \in InfoData}
    \cup {Payload(e, st, NoSection, NoSection, NoSection) :
            e \in Envelopes \cup {Anonymous}, st \in {NoSection, GoodStates}}
    \cup {Payload(e, st,
                  Section([value |-> Num(250), dayUsage |-> Num(500), dayLowUsage |-> Num(300)]),
                  Section([dayUsage |-> Num(1000)]),
                  Section([currentDisplayTemp |-> Num(2051), currentSetpoint |-> Num(1950),
                           activeState |-> Num(1), currentHumidity |-> Num(45),
                           programState |-> Num(1)])) :
            e \in Envelopes, st \in {GoodStates, BadStates}}

\* the capability updates Homey may reject in one call
RejectedSets == {{}, {"meter_power", "temperature_state"}}

Reconcile ==
    \E p \in ReconPayloads, rejected \in RejectedSets :
        ProcessStatusUpdate(p, rejected)

ReconIdle ==
    /\ dev = NewDevice
    /\ processed = 0
    /\ recon = NoRecon

InitRecon == ReconIdle

NextRecon ==
    \/ Reconcile
    \/ AddCapabilityDone

-----------------------------------------------------------------------------
(* ToonDevice.registerWebhookSubscription                                  *)
(*                                                                         *)
(* A call in flight is a record                                            *)
(*   at      where it waits: "subscribe" (the provider call of the client),*)
(*           "clearWarning" (setWarning(null)), "wait" (Util.wait between  *)
(*           two attempts), "setWarning" (setWarning(...) of the catch)    *)
(*   run     the state of its wrapAsyncWithRetry call; run.calls is i      *)
(*   caller  "init" (onOAuth2Init awaits it) or "timer" (the renewal timer)*)

retryTimes == 10

NoRegCall == [event |-> "none", caller |-> "none", wasRegistering |-> FALSE,
              inFlightBefore |-> 0]

InFlight == BagCardinality(loops)

Loop(at, r, caller) == [at |-> at, run |-> r, caller |-> caller]

\* lines 200-204 without the early return
AlwaysStart(flag) == TRUE

\* lines 200-201: the call goes on unless a registration is running
MayStart(flag) == ~flag

\* registerWebhookSubscription() is called: it returns at once when the flag
\* is set; otherwise it sets the flag and the first attempt calls the provider
registerWebhookSubscription(caller) ==
    IF ~MayStart(registering)
    THEN /\ regCall' = [event |-> "noop", caller |-> caller,
                        wasRegistering |-> registering, inFlightBefore |-> InFlight]
         /\ UNCHANGED <<registering, loops>>
    ELSE /\ InFlight < MaxLoops
         /\ registering' = TRUE
         /\ loops' = loops (+) SetToBag({Loop("subscribe", executeFirst, caller)})
         /\ regCall' = [event |-> "started", caller |-> caller,
                        wasRegistering |-> registering, inFlightBefore |-> InFlight]

\* the wrapped method has rejected with err: wrapAsyncWithRetry retries after
\* the wait, or rejects, and then the catch block clears the flag and calls
\* setWarning(...)
AttemptFailed(l, err) ==
    LET r == onRejected(l.run, retryTimes, "backoff", err) IN
    IF r.pc = "waiting"
    THEN /\ loops' = (loops (-) SetToBag({l})) (+) SetToBag({Loop("wait", r, l.caller)})
         /\ UNCHANGED registering
    ELSE /\ loops' = (loops (-) SetToBag({l})) (+) SetToBag({Loop("setWarning", r, l.caller)})
         /\ registering' = FALSE

\* the provider call of an attempt is answered
SubscribeAnswered(l, ok) ==
    /\ BagIn(l, loops) /\ l.at = "subscribe"
    /\ IF ok
       THEN \* lines 216-217: clear the flag, then await setWarning(null)
            /\ registering' = FALSE
            /\ loops' = (loops (-) SetToBag({l}))
                          (+) SetToBag({Loop("clearWarning", l.run, l.caller)})
       ELSE AttemptFailed(l, "failed")
    /\ regCall' = NoRegCall
    /\ UNCHANGED <<warning, init>>

\* setWarning(null) of an attempt is answered: the attempt, and with it the
\* call, succeeds; or the attempt fails like any other
ClearWarningAnswered(l, ok) ==
    /\ BagIn(l, loops) /\ l.at = "clearWarning"
    /\ IF ok
       THEN /\ warning' = FALSE
            /\ loops' = loops (-) SetToBag({l})
            /\ regCall' = [event |-> "resolved", caller |-> l.caller,
                           wasRegistering |-> registering, inFlightBefore |-> InFlight]
            /\ init' = IF l.caller = "init" THEN [init EXCEPT !.registration = "resolved"]
                       ELSE init
            /\ UNCHANGED registering
       ELSE /\ AttemptFailed(l, "failed")
            /\ regCall' = NoRegCall
            /\ UNCHANGED <<warning, init>>

\* Util.wait(...) is over: the next attempt calls the provider
RetryWaitElapsed(l) ==
    /\ BagIn(l, loops) /\ l.at = "wait"
    /\ loops' = (loops (-) SetToBag({l}))
                  (+) SetToBag({Loop("subscribe", executeAgain(l.run), l.caller)})
    /\ regCall' = NoRegCall
    /\ UNCHANGED <<registering, warning, init>>

\* setWarning(...) of the catch block is answered; the call then rejects, with
\* the error of the last attempt or with that of setWarning
SetWarningAnswered(l, ok) ==
    /\ BagIn(l, loops) /\ l.at = "setWarning"
    /\ warning' = IF ok THEN TRUE ELSE warning
    /\ loops' = loops (-) SetToBag({l})
    /\ regCall' = [event |-> "rejected", caller |-> l.caller,
                   wasRegistering |-> registering, inFlightBefore |-> InFlight]
    /\ init' = IF l.caller = "init" THEN [init EXCEPT !.registration = "rejected"]
               ELSE init
    /\ UNCHANGED registering

LoopsIn(b) == BagToSet(b)

SubscribeStep ==
    /\ \E l \in LoopsIn(loops), ok \in BOOLEAN : SubscribeAnswered(l, ok)
    /\ recon' = NoRecon
    /\ UNCHANGED <<dev, processed, teardown>>
    /\ UNCHANGED nonDeviceVars

ClearWarningStep ==
    /\ \E l \in LoopsIn(loops), ok \in BOOLEAN : ClearWarningAnswered(l, ok)
    /\ recon' = NoRecon
    /\ UNCHANGED <<dev, processed, teardown>>
    /\ UNCHANGED nonDeviceVars

RetryWaitStep ==
    /\ \E l \in LoopsIn(loops) : RetryWaitElapsed(l)
    /\ recon' = NoRecon
    /\ UNCHANGED <<dev, processed, teardown>>
    /\ UNCHANGED nonDeviceVars

SetWarningStep ==
    /\ \E l \in LoopsIn(loops), ok \in BOOLEAN : SetWarningAnswered(l, ok)
    /\ recon' = NoRecon
    /\ UNCHANGED <<dev, processed, teardown>>
    /\ UNCHANGED nonDeviceVars

\* the renewal timer fires: setTimeout calls registerWebhookSubscription
TimerFires ==
    /\ \E t \in dev.timers : dev' = [dev EXCEPT !.timers = @ \ {t}]
    /\ registerWebhookSubscription("timer")
    /\ recon' = NoRecon
    /\ UNCHANGED <<warning, init, teardown, processed>>
    /\ UNCHANGED nonDeviceVars

-----------------------------------------------------------------------------
(* ToonDevice.onOAuth2Init: the raw data objects are emptied, then          *)
(* getStatusUpdate() and registerWebhookSubscription() run together; the    *)
(* device is marked available when both are done or the second has failed.  *)

NotInitialised == [pc |-> "new", status |-> "none", registration |-> "none"]

\* lines 82-104: setUnavailable and registerWebhook are awaited, then
\* getStatusUpdate() and registerWebhookSubscription() are both called
OnOAuth2Init ==
    /\ init.pc = "new"
    /\ init' = [pc |-> "waiting", status |-> "pending", registration |-> "pending"]
    /\ registerWebhookSubscription("init")
    /\ UNCHANGED <<warning, teardown, dev, processed, recon>>
    /\ UNCHANGED nonDeviceVars

\* setUnavailable or registerWebhook rejects: onOAuth2Init rejects before it
\* has called either
OnOAuth2InitRejects ==
    /\ init.pc = "new"
    /\ init' = [init EXCEPT !.pc = "rejected"]
    /\ UNCHANGED <<registering, warning, loops, teardown, regCall, dev, processed, recon>>
    /\ UNCHANGED nonDeviceVars

\* the payloads a device of SpecSub is handed: no section, with or without a
\* time to live, from this display or another
SubPayloads ==
    {Payload([hasDataSet |-> TRUE, commonName |-> cn, timeToLiveSeconds |-> ttl],
             NoSection, NoSection, NoSection, NoSection) :
        cn \in {"own", "other"}, ttl \in {Undefined, Num(1800), Num(3600)}}

\* getStatus() of getStatusUpdate is answered: the status is processed (it has
\* no commonName and no timeToLiveSeconds), or the failure is logged
StatusFetched ==
    /\ init.status = "pending"
    /\ init' = [init EXCEPT !.status = "done"]
    /\ \/ \E out \in {processStatusUpdate(dev,
                        Payload([hasDataSet |-> TRUE, commonName |-> "absent",
                                 timeToLiveSeconds |-> Undefined],
                                NoSection, NoSection, NoSection, NoSection), {})} :
             dev' = out.dev
       \/ UNCHANGED dev
    /\ regCall' = NoRegCall
    /\ recon' = NoRecon
    /\ UNCHANGED <<registering, warning, loops, teardown, processed>>
    /\ UNCHANGED nonDeviceVars

\* Promise.all has settled: setAvailable()
InitAvailable ==
    /\ init.pc = "waiting"
    /\ \/ init.registration = "rejected"
       \/ init.registration = "resolved" /\ init.status = "done"
    /\ init' = [init EXCEPT !.pc = "available"]
    /\ regCall' = NoRegCall
    /\ recon' = NoRecon
    /\ UNCHANGED <<registering, warning, loops, teardown, dev, processed>>
    /\ UNCHANGED nonDeviceVars

\* the payloads of SubPayloads that arm the renewal timer
Renewals == {p \in SubPayloads : p.commonName = "own" /\ p.timeToLiveSeconds = Num(3600)}

\* the webhook delivers a payload, one of payloads
WebhookMessage(payloads) ==
    /\ init.pc \in {"waiting", "available"}
    /\ teardown \in {"none", "unsubscribing"}
    /\ \E p \in payloads :
          /\ processed < MaxPayloads
          /\ processed' = processed + 1
          /\ \E out \in {processStatusUpdate(dev, p, {})} :
                /\ dev' = out.dev
                /\ recon' = [commonName |-> p.commonName, hasDataSet |-> p.hasDataSet,
                             ttl |-> IsNumber(p.timeToLiveSeconds),
                            timeToLiveSeconds |-> p.timeToLiveSeconds, carried |-> Carried(p),
                             did |-> out.did, changed |-> (out.dev # dev)]
    /\ regCall' = NoRegCall
    /\ UNCHANGED <<registering, warning, loops, init, teardown>>
    /\ UNCHANGED nonDeviceVars

-----------------------------------------------------------------------------
(* ToonDevice.onOAuth2Deleted *)

\* clearTimeout(this._webhookRegistrationTimeout) left out
KeepTimers(pending, handle) == pending

\* line 465: clearTimeout(this._webhookRegistrationTimeout)
ClearRenewal(pending, handle) == clearTimeout(pending, handle)

\* the device is removed: the client's unregisterWebhookSubscription is awaited
OnOAuth2Deleted ==
    /\ init.pc # "new"
    /\ teardown = "none"
    /\ teardown' = "unsubscribing"
    /\ regCall' = NoRegCall
    /\ recon' = NoRecon
    /\ UNCHANGED <<registering, warning, loops, init, dev, processed>>
    /\ UNCHANGED nonDeviceVars

\* the DELETE is answered: the renewal timeout is cleared and onOAuth2Deleted
\* resolves; or the await throws and onOAuth2Deleted rejects there
UnsubscribeAnswered ==
    /\ teardown = "unsubscribing"
    /\ \E ok \in BOOLEAN :
          IF ok
          THEN /\ dev' = [dev EXCEPT !.timers = ClearRenewal(@, dev.timeoutHandle)]
               /\ teardown' = "resolved"
          ELSE /\ teardown' = "rejected"
               /\ UNCHANGED dev
    /\ regCall' = NoRegCall
    /\ recon' = NoRecon
    /\ UNCHANGED <<registering, warning, loops, init, processed>>
    /\ UNCHANGED nonDeviceVars

SubIdle ==
    /\ registering = FALSE
    /\ warning = FALSE
    /\ loops = EmptyBag
    /\ init = NotInitialised
    /\ teardown = "none"
    /\ regCall = NoRegCall

InitSub == SubIdle /\ ReconIdle

\* The renewal timer and the teardown. The steps of the calls that the timer
\* starts touch neither the timers nor the teardown; they are those of NextSub.
NextTimer ==
    \/ OnOAuth2Init
    \/ OnOAuth2InitRejects
    \/ StatusFetched
    \/ WebhookMessage(SubPayloads)
    \/ TimerFires
    \/ OnOAuth2Deleted
    \/ UnsubscribeAnswered

NextSub ==
    \/ OnOAuth2Init
    \/ OnOAuth2InitRejects
    \/ StatusFetched
    \/ InitAvailable
    \/ WebhookMessage(Renewals)
    \/ TimerFires
    \/ SubscribeStep
    \/ ClearWarningStep
    \/ RetryWaitStep
    \/ SetWarningStep

-----------------------------------------------------------------------------
(* ToonDevice.debounce(fn, wait)                                           *)
(*                                                                         *)
(* closure.timer is the handle of the last setTimeout (0 for null) and     *)
(* closure.resolves the callers waiting; a timeout is [id, args, left]     *)
(* with left the milliseconds before it may run.  A timeout runs when its  *)
(* delay is over or later, never earlier.                                  *)

\* the window of the two capability listeners
debounceWait == 500

\* the arguments of a call: the value the capability is set to
ListenerArgs == {"comfort", "away"}

\* the steps in which time passes
Delays == {200, 300}

Min(a, b) == IF a < b THEN a ELSE b
Max(a, b) == IF a > b THEN a ELSE b

\* the returned function without its clearTimeout(timer)
DebouncedNoClear(c, pending, id, args) ==
    [closure |-> [timer |-> id, resolves |-> Append(c.resolves, id)],
     timeouts |-> pending \cup {[id |-> id, args |-> args, left |-> debounceWait]}]

\* the returned function, called with args: cancel the timeout, set a new one
\* for these args, and return a promise whose resolver joins resolves
debounced(c, pending, id, args) ==
    [closure |-> [timer |-> id, resolves |-> Append(c.resolves, id)],
     timeouts |-> clearTimeout(pending, c.timer)
                     \cup {[id |-> id, args |-> args, left |-> debounceWait]}]

\* the callback of the timeout: fn(...args), every waiting caller is resolved
\* with its result, resolves is emptied
MarkResolved(cs, waiting, k) ==
    [i \in DOMAIN cs |->
        IF \E j \in DOMAIN waiting : waiting[j] = i THEN [cs[i] EXCEPT !.by = k] ELSE cs[i]]

\* the listener is called
DebouncedCall ==
    /\ Len(calls) < MaxCalls
    /\ \E args \in ListenerArgs :
         \E out \in {debounced(closure, timeouts, Len(calls) + 1, args)} :
            /\ closure' = out.closure
            /\ timeouts' = out.timeouts
            /\ calls' = Append(calls, [args |-> args, gap |-> sinceCall, by |-> 0])
    /\ sinceCall' = 0
    /\ UNCHANGED invoked
    /\ UNCHANGED nonDebounceVars

\* time passes
Elapse ==
    /\ \E d \in Delays :
          /\ sinceCall < debounceWait \/ \E t \in timeouts : t.left > 0
          /\ sinceCall' = Min(sinceCall + d, debounceWait)
          /\ timeouts' = {[t EXCEPT !.left = Max(t.left - d, 0)] : t \in timeouts}
    /\ UNCHANGED <<closure, calls, invoked>>
    /\ UNCHANGED nonDebounceVars

\* a timeout runs
TimeoutRuns ==
    /\ \E t \in timeouts :
          /\ t.left = 0
          /\ timeouts' = timeouts \ {t}
          /\ invoked' = Append(invoked, t.args)
          /\ calls' = MarkResolved(calls, closure.resolves, Len(invoked) + 1)
          /\ closure' = [closure EXCEPT !.resolves = <<>>]
    /\ UNCHANGED sinceCall
    /\ UNCHANGED nonDebounceVars

DebounceIdle ==
    /\ closure = [timer |-> 0, resolves |-> <<>>]
    /\ timeouts = {}
    /\ sinceCall = debounceWait
    /\ calls = <<>>
    /\ invoked = <<>>

NextDebounce == DebouncedCall \/ Elapse \/ TimeoutRuns

-----------------------------------------------------------------------------
(* Thermostat writes (src/unnamed/part_002): onCapabilityTargetTemperature, *)
(* setTargetTemperature, onCapabilityTemperatureState and updateState. Each *)
(* builds a request from this.thermostatInfo and PUTs it through            *)
(* oAuth2Client.updateState; the provider answers later, and payloads may   *)
(* be reconciled in between.                                               *)
(*                                                                         *)
(* The temperature a listener is given is in hundredths of a degree here,  *)
(* the temperature handed to setTargetTemperature in tenths (as the        *)
(* capability values are), the setpoint of a request in hundredths (as the *)
(* provider's are).                                                        *)

MaxWrites == 2

\* the result of arithmetic on undefined
NaN == [type |-> "NaN", v |-> 0]

\* the capability value after setCapabilityValue(…, NaN) was accepted
NotANumber == [set |-> TRUE, v |-> 0, nan |-> TRUE]

\* Math.floor(temperature * 2) / 2: 2130 is 210 = 21.0
RoundDownToHalf(t) == ((2 * t) \div 100) * 5

\* Math.round(temperature * 2) / 2: 2130 is 215 = 21.5, 2125 is 215
RoundToHalf(t) == ((2 * t + 50) \div 100) * 5

\* temperature * 100
Times100(temperature) ==
    IF IsNumber(temperature) THEN Num(10 * temperature.v) ELSE NaN

\* TEMPERATURE_STATES[state]
StateId(state) ==
    LET hits == {i \in DOMAIN TEMPERATURE_STATES : TEMPERATURE_STATES[i].key = state} IN
    IF hits = {} THEN Undefined
    ELSE Num(TEMPERATURE_STATES[CHOOSE i \in hits : TRUE].val)

\* the request of setTargetTemperature
TargetData(info, temperature) ==
    [info EXCEPT !.currentSetpoint = Times100(temperature),
                 !.programState = Num(2),
                 !.activeState = Num(-1)]

\* updateState with the program switched off when it is to be kept
StateDataOffWhenKept(info, stateId, keepProgram) ==
    [info EXCEPT !.activeState = stateId,
                 !.programState = IF keepProgram THEN Num(0) ELSE Num(2)]

\* the request of updateState
StateData(info, stateId, keepProgram) ==
    [info EXCEPT !.activeState = stateId,
                 !.programState = IF keepProgram THEN Num(2) ELSE Num(0)]

NoWrite ==
    [event |-> "none", call |-> "", input |-> Undefined,
     temperature |-> Undefined,
     state |-> "", data |-> EmptyInfo, answer |-> "none",
     capsBefore |-> NewDevice.caps, emitted |-> Emitted({}), refused |-> {},
     error |-> "", value |-> Undefined]

\* a call of oAuth2Client.updateState the provider has not answered
Request(call, temperature, state, keepProgram, data) ==
    [call |-> call, temperature |-> temperature, state |-> state,
     keepProgram |-> keepProgram, data |-> data]

\* the requests in flight
Requests == BagToSet(writes)

\* setTargetTemperature(temperature) up to its return; `refused` are the
\* capabilities whose setCapabilityValue Homey rejects
setTargetTemperature(d, temperature, refused) ==
    LET data == TargetData(d.thermostatInfo, temperature)
        updates == {<<"target_temperature", temperature.v>>}
    IN
    IF ~IsNumber(temperature)
    THEN [dev |-> d, data |-> data, sent |-> FALSE, emitted |-> Emitted({}),
          error |-> "error_set_target_temperature"]
    ELSE [dev |-> [d EXCEPT !.caps = ApplyUpdates(d.caps, updates, refused)],
          data |-> data, sent |-> TRUE, emitted |-> Emitted(updates),
          error |-> ""]

\* the .then / .catch of setTargetTemperature, with the preset indicator
\* cleared whatever the answer
TargetAnsweredAlwaysClears(d, w, ok, refused) ==
    LET updates == {<<"temperature_state", "none">>} IN
    [dev |-> [d EXCEPT !.caps = ApplyUpdates(d.caps, updates, refused)],
     event |-> IF ok THEN "resolved" ELSE "rejected",
     emitted |-> Emitted(updates),
     error |-> IF ok THEN "" ELSE "error_set_target_temperature",
     value |-> IF ok THEN w.temperature ELSE Undefined]

\* the .then / .catch of setTargetTemperature
TargetAnswered(d, w, ok, refused) ==
    LET updates == {<<"temperature_state", "none">>} IN
    IF ok
    THEN [dev |-> [d EXCEPT !.caps = ApplyUpdates(d.caps, updates, refused)],
          event |-> "resolved", emitted |-> Emitted(updates),
          error |-> "", value |-> w.temperature]
    ELSE [dev |-> d, event |-> "rejected", emitted |-> Emitted({}),
          error |-> "error_set_target_temperature", value |-> Undefined]

\* updateState after the await of oAuth2Client.updateState. The value it
\* hands to setCapabilityValue is NaN when temperatureStatesMap has no
\* entry for the preset: Homey then rejects the call or stores the value.
StateAnswered(d, w, ok, refused) ==
    LET stateId == w.data.activeState
        setpoint == d.temperatureStatesMap[stateId.v]
        failed == [dev |-> d, event |-> "rejected", emitted |-> Emitted({}),
                   error |-> "error_set_temperature_state", value |-> Undefined]
    IN
    IF ~ok THEN failed
    ELSE IF ~(IsNumber(stateId) /\ stateId.v >= 0)
    THEN [dev |-> d, event |-> "resolved", emitted |-> Emitted({}),
          error |-> "", value |-> w.state]
    ELSE
    LET updates == {<<"target_temperature", RoundToTenth(setpoint.v)>>}
        emitted == IF IsNumber(setpoint) THEN Emitted(updates)
                   ELSE [Emitted({}) EXCEPT !["target_temperature"] = NotANumber]
    IN
    IF "target_temperature" \in refused
    THEN [failed EXCEPT !.emitted = emitted]
    ELSE [dev |-> [d EXCEPT !.caps["target_temperature"] = emitted["target_temperature"]],
          event |-> "resolved", emitted |-> emitted,
          error |-> "", value |-> w.state]

\* the temperatures the target_temperature listener is called with
Temperatures == {2130, 2125, 1974}

\* the presets the temperature_state listener is called with
Presets == {"comfort", "home", "none"}

\* onCapabilityTargetTemperature(temperature)
OnCapabilityTargetTemperature ==
    \E t \in Temperatures, refused \in {{}, {"target_temperature"}} :
        LET temperature == Num(RoundToHalf(t))
            out == setTargetTemperature(dev, temperature, refused)
        IN
        /\ started < MaxWrites
        /\ started' = started + 1
        /\ dev' = out.dev
        /\ writes' = IF out.sent
                     THEN writes (+) SetToBag({Request("setTargetTemperature",
                                                       temperature, "", FALSE, out.data)})
                     ELSE writes
        /\ written' = [NoWrite EXCEPT
                          !.event = IF out.sent THEN "called" ELSE "threw",
                          !.call = "setTargetTemperature",
                          !.input = Num(t),
                          !.temperature = temperature,
                          !.data = out.data,
                          !.capsBefore = dev.caps,
                          !.emitted = out.emitted,
                          !.refused = refused,
                          !.error = out.error]
        /\ UNCHANGED <<processed, recon, nonWriteVars>>

\* onCapabilityTemperatureState(state, resumeProgram): updateState up to its
\* await of oAuth2Client.updateState
OnCapabilityTemperatureState ==
    \E state \in Presets, keepProgram \in BOOLEAN :
        LET data == StateData(dev.thermostatInfo, StateId(state), keepProgram) IN
        /\ started < MaxWrites
        /\ started' = started + 1
        /\ writes' = writes (+) SetToBag({Request("updateState", Undefined,
                                                  state, keepProgram, data)})
        /\ written' = [NoWrite EXCEPT
                          !.event = "called",
                          !.call = "updateState",
                          !.state = state,
                          !.data = data,
                          !.capsBefore = dev.caps]
        /\ UNCHANGED <<dev, processed, recon, nonWriteVars>>

\* the provider answers a request, and the call that made it goes on
Answered(w, ok, refused, out) ==
    /\ writes' = writes (-) SetToBag({w})
    /\ dev' = out.dev
    /\ written' = [NoWrite EXCEPT
                      !.event = out.event,
                      !.call = w.call,
                      !.temperature = w.temperature,
                      !.state = w.state,
                      !.data = w.data,
                      !.answer = IF ok THEN "ok" ELSE "failed",
                      !.capsBefore = dev.caps,
                      !.emitted = out.emitted,
                      !.refused = refused,
                      !.error = out.error,
                      !.value = out.value]
    /\ UNCHANGED <<started, processed, recon, nonWriteVars>>

TargetWriteAnswered ==
    \E w \in Requests, ok \in BOOLEAN, refused \in {{}, {"temperature_state"}} :
        /\ w.call = "setTargetTemperature"
        /\ refused # {} => ok
        /\ Answered(w, ok, refused, TargetAnswered(dev, w, ok, refused))

StateWriteAnswered ==
    \E w \in Requests, ok \in BOOLEAN, refused \in {{}, {"target_temperature"}} :
        /\ w.call = "updateState"
        /\ refused # {} => (ok /\ IsNumber(w.data.activeState) /\ w.data.activeState.v >= 0)
        /\ Answered(w, ok, refused, StateAnswered(dev, w, ok, refused))

\* the payloads reconciled between the writes
WriteEnvelope == [hasDataSet |-> TRUE, commonName |-> "own", timeToLiveSeconds |-> Undefined]

WritePayloads ==
    {Payload(WriteEnvelope, GoodStates, NoSection, NoSection,
             Section([currentDisplayTemp |-> Num(2051), currentSetpoint |-> Num(1950),
                      activeState |-> Num(1), currentHumidity |-> Undefined,
                      programState |-> Num(1)])),
     Payload(WriteEnvelope, NoSection, NoSection, NoSection,
             Section([currentDisplayTemp |-> Undefined, currentSetpoint |-> Num(2000),
                      activeState |-> Undefined, currentHumidity |-> Undefined,
                      programState |-> Num(2)]))}

\* the webhook's 'message' event while writes are made
WriteReconcile ==
    \E p \in WritePayloads :
        /\ processed < MaxPayloads
        /\ processed' = processed + 1
        /\ \E out \in {processStatusUpdate(dev, p, {})} :
            /\ dev' = out.dev
            /\ recon' = [commonName |-> p.commonName, hasDataSet |-> p.hasDataSet,
                         ttl |-> IsNumber(p.timeToLiveSeconds),
                         timeToLiveSeconds |-> p.timeToLiveSeconds,
                         carried |-> Carried(p),
                         did |-> out.did, changed |-> (out.dev # dev)]
        /\ written' = NoWrite
        /\ UNCHANGED <<writes, started, nonWriteVars>>

WriteIdle ==
    /\ writes = EmptyBag
    /\ started = 0
    /\ written = NoWrite

NextWrite ==
    \/ OnCapabilityTargetTemperature
    \/ OnCapabilityTemperatureState
    \/ TargetWriteAnswered
    \/ StateWriteAnswered
    \/ WriteReconcile

-----------------------------------------------------------------------------
(* ToonOAuth2Client.registerWebhookSubscription({id}) (src/app.js): a      *)
(* DELETE of the application's subscription on the agreement, its failure  *)
(* caught, then the POST of a new one. The provider removes the            *)
(* application's subscriptions on a DELETE it answers, and adds one on a   *)
(* POST it accepts. The calls of one agreement may overlap: the device     *)
(* starts a second registration call while one is in flight (see           *)
(* C3_SingleRegistration).                                                 *)

MaxClientCalls == 3

\* no subscription, and no DELETE has failed
NoSubscription == [subs |-> 0, honoured |-> TRUE]

NoClientCall == [event |-> "none", deleted |-> FALSE, posted |-> FALSE]

\* registerWebhookSubscription({id}) up to its await of this.delete(...)
ClientRegister ==
    /\ issued < MaxClientCalls
    /\ issued' = issued + 1
    /\ clientCalls' = clientCalls (+) SetToBag({[pc |-> "delete", deleted |-> FALSE]})
    /\ clientCall' = NoClientCall
    /\ UNCHANGED <<provider, nonClientVars>>

\* the DELETE is answered, its failure is caught, and the POST is sent
DeleteStep ==
    \E c \in BagToSet(clientCalls), ok \in BOOLEAN :
        /\ c.pc = "delete"
        /\ clientCalls' = (clientCalls (-) SetToBag({c}))
                            (+) SetToBag({[pc |-> "post", deleted |-> ok]})
        /\ provider' = IF ok THEN [provider EXCEPT !.subs = 0]
                       ELSE [provider EXCEPT !.honoured = FALSE]
        /\ clientCall' = NoClientCall
        /\ UNCHANGED <<issued, nonClientVars>>

\* the POST is answered: its outcome is the outcome of the call
PostStep ==
    \E c \in BagToSet(clientCalls), ok \in BOOLEAN :
        /\ c.pc = "post"
        /\ clientCalls' = clientCalls (-) SetToBag({c})
        /\ provider' = IF ok THEN [provider EXCEPT !.subs = @ + 1] ELSE provider
        /\ clientCall' = [event |-> IF ok THEN "resolved" ELSE "rejected",
                          deleted |-> c.deleted, posted |-> ok]
        /\ UNCHANGED <<issued, nonClientVars>>

ClientIdle ==
    /\ provider = NoSubscription
    /\ clientCalls = EmptyBag
    /\ issued = 0
    /\ clientCall = NoClientCall

NextClient == ClientRegister \/ DeleteStep \/ PostStep

-----------------------------------------------------------------------------
(* The specifications of the session manager *)

InitAppWith(nLogins, nDevices) ==
    /\ sessions = <<>>
    /\ clients = {}
    /\ login = [l \in 1..nLogins |-> IdleLogin]
    /\ resets = {}
    /\ devAvailable = [d \in 1..nDevices |-> FALSE]
    /\ devClient = [d \in 1..nDevices |-> 0]
    /\ devLegacy \in [1..nDevices -> BOOLEAN]
    /\ appCall = NoCall
    /\ handled = NoOutcome
    /\ RetryIdle
    /\ ReconIdle
    /\ SubIdle
    /\ DebounceIdle
    /\ WriteIdle
    /\ ClientIdle

NextSession ==
    \/ IsAuthenticated
    \/ \E l \in Logins : Login(l)
    \/ \E l \in Logins : LoginCode(l)
    \/ \E l \in Logins : LoginExchanged(l)
    \/ \E r \in resets : ResetBind(r)
    \/ ResetAnswered
    \/ Logout

NextFleet ==
    \/ NextSession
    \/ \E d \in Devices : Migrate(d)

\* several logins on a 2.1.x installation with its one Toon (no legacy store)
InitSession == InitAppWith(MaxLogins, 1) /\ devLegacy = [d \in 1..1 |-> FALSE]
SpecSession == InitSession /\ [][NextSession]_vars

\* one login, several managed devices, each of which may still hold the
\* 2.0.x store value
InitFleet == InitAppWith(1, NumDevices)
SpecFleet == InitFleet /\ [][NextFleet]_vars

\* the session manager when another component is the one specified
AppIdle ==
    /\ sessions = <<>>
    /\ clients = {}
    /\ login = <<>>
    /\ resets = {}
    /\ devAvailable = <<>>
    /\ devClient = <<>>
    /\ devLegacy = <<>>
    /\ appCall = NoCall
    /\ handled = NoOutcome

InitRetryOnly == InitRetry /\ AppIdle /\ ReconIdle /\ SubIdle /\ DebounceIdle /\ WriteIdle /\ ClientIdle
SpecRetry == InitRetryOnly /\ [][NextRetry]_vars

InitReconOnly == InitRecon /\ AppIdle /\ RetryIdle /\ SubIdle /\ DebounceIdle /\ WriteIdle /\ ClientIdle
SpecRecon == InitReconOnly /\ [][NextRecon]_vars

InitSubOnly == InitSub /\ AppIdle /\ RetryIdle /\ DebounceIdle /\ WriteIdle /\ ClientIdle
SpecSub == InitSubOnly /\ [][NextSub]_vars

\* every provider call, every Homey call and every wait of a registration
\* call completes, and so do getStatus() and the continuation of Promise.all
FairSub ==
    /\ WF_vars(SubscribeStep)
    /\ WF_vars(ClearWarningStep)
    /\ WF_vars(RetryWaitStep)
    /\ WF_vars(SetWarningStep)
    /\ WF_vars(StatusFetched)
    /\ WF_vars(InitAvailable)

\* onOAuth2Init and the registration call it makes, with no webhook message
NextInit ==
    \/ OnOAuth2Init
    \/ OnOAuth2InitRejects
    \/ StatusFetched
    \/ InitAvailable
    \/ SubscribeStep
    \/ ClearWarningStep
    \/ RetryWaitStep
    \/ SetWarningStep

InitInitFair == InitSub /\ AppIdle /\ RetryIdle /\ DebounceIdle /\ WriteIdle /\ ClientIdle
SpecInitFair == InitInitFair /\ [][NextInit]_vars /\ FairSub

InitTimer == InitSub /\ AppIdle /\ RetryIdle /\ DebounceIdle /\ WriteIdle /\ ClientIdle
SpecTimer == InitTimer /\ [][NextTimer]_vars

\* the removal of a device whose registration calls and renewal timer run
NextRemoval ==
    \/ NextSub
    \/ OnOAuth2Deleted
    \/ UnsubscribeAnswered

SpecRemoval == InitSubOnly /\ [][NextRemoval]_vars

InitDebounce == DebounceIdle /\ AppIdle /\ RetryIdle /\ ReconIdle /\ SubIdle /\ WriteIdle /\ ClientIdle
SpecDebounce == InitDebounce /\ [][NextDebounce]_vars

InitWrite == WriteIdle /\ ReconIdle /\ AppIdle /\ RetryIdle /\ SubIdle /\ DebounceIdle /\ ClientIdle
SpecWrite == InitWrite /\ [][NextWrite]_vars

InitClient == ClientIdle /\ WriteIdle /\ ReconIdle /\ AppIdle /\ RetryIdle /\ SubIdle /\ DebounceIdle
SpecClient == InitClient /\ [][NextClient]_vars

-----------------------------------------------------------------------------
(* Claims on the session manager *)

\* C1: isAuthenticated() returns false with zero persisted sessions, true with
\* exactly one, raises with two or more, and leaves the persisted sessions as
\* they were.
C1_IsAuthenticated ==
    appCall.op = "isAuthenticated" =>
        /\ Len(appCall.sessionsBefore) = 0 => appCall.result = "false"
        /\ Len(appCall.sessionsBefore) = 1 => appCall.result = "true"
        /\ Len(appCall.sessionsBefore) >= 2 => appCall.result = "throw"
        /\ sessions = appCall.sessionsBefore

C1_Witness ==
    /\ appCall.op = "isAuthenticated"
    /\ Len(appCall.sessionsBefore) >= 2
    /\ appCall.result = "throw"

\* C2: in every reachable state at most one session is persisted.
C2_AtMostOneSession == Len(sessions) <= 1

\* C5: logout() with zero persisted sessions raises and marks no device
\* unavailable; with exactly one it removes the session and marks every
\* device unavailable, whatever their availability was; a logout() right after
\* a successful one raises and changes nothing.
C5_Logout ==
    appCall.op = "logout" =>
        /\ Len(appCall.sessionsBefore) = 0 =>
              /\ appCall.result = "throw"
              /\ devAvailable = appCall.availableBefore
              /\ sessions = appCall.sessionsBefore
        /\ Len(appCall.sessionsBefore) = 1 =>
              /\ appCall.result = "ok"
              /\ sessions = <<>>
              /\ \A d \in Devices : ~devAvailable[d]
        /\ appCall.prev = <<"logout", "ok">> =>
              /\ appCall.result = "throw"
              /\ devAvailable = appCall.availableBefore
              /\ sessions = appCall.sessionsBefore

C5_Witness ==
    /\ appCall.op = "logout"
    /\ appCall.result = "ok"
    /\ \E d \in Devices : appCall.availableBefore[d]
    /\ \E d \in Devices : ~appCall.availableBefore[d]
    /\ \A d \in Devices : ~devAvailable[d]

\* C6: when the exchange of the authorization code fails, an error event is
\* emitted, that login persists no session and no "authorized" event is
\* broadcast.
C6_FailedExchangeStaysUnauthenticated ==
    handled.exchanged = "failed" =>
        /\ handled.error
        /\ ~handled.saved
        /\ ~handled.authorized

-----------------------------------------------------------------------------
(* Claims on the retry runner *)

\* C4: wrapAsyncWithRetry invokes the method at most times+1 times; when the
\* method fails k <= times times and then succeeds, the call resolves with
\* that value after exactly k+1 invocations, having waited interval(1), ...,
\* interval(k) in that order; when all times+1 invocations fail, the call
\* rejects with the last failure.
C4_Retry ==
    /\ run.calls <= retryArgs.times + 1
    /\ run.pc = "resolved" =>
          /\ run.failures <= retryArgs.times
          /\ run.calls = run.failures + 1
          /\ run.settled \in Values
          /\ run.waits = [k \in 1..run.failures |-> waitTime(retryArgs.interval, k)]
    /\ run.pc = "rejected" =>
          /\ run.failures = retryArgs.times + 1
          /\ run.calls = retryArgs.times + 1
          /\ run.settled = run.lastFailure
    /\ run.pc \in {"calling", "waiting"} => run.settled = "none"

\* times = 2, interval = n => 100 * n, two failures then success
C4_Witness ==
    /\ retryArgs = [times |-> 2, interval |-> "linear100"]
    /\ run.pc = "resolved"
    /\ run.calls = 3
    /\ run.waits = <<100, 200>>

-----------------------------------------------------------------------------
(* Claims on the reconciler *)

\* C8: processStatusUpdate with a payload whose commonName is a string other
\* than the device's id leaves the whole device unchanged: the preset
\* temperatures, the stored power, gas and thermostat data, every capability
\* value and the pending renewal timer, also when the payload carries
\* timeToLiveSeconds.
C8_ForeignPayloadIgnored ==
    (recon.hasDataSet /\ recon.commonName = "other") =>
        /\ ~recon.changed
        /\ recon.did.sections = {}
        /\ \A c \in CapNames : ~recon.did.emitted[c].set

\* a foreign payload with a timeToLiveSeconds and every section, handed to a
\* device that holds data and an armed timer
C8_Witness ==
    /\ recon.hasDataSet /\ recon.commonName = "other"
    /\ recon.ttl
    /\ recon.carried = {"thermostatStates", "powerUsage", "gasUsage", "thermostatInfo"}
    /\ dev.timers # {}
    /\ dev.caps["measure_power"].set
    /\ ~recon.changed

-----------------------------------------------------------------------------
(* Claims on the subscription scheduler *)

\* C3: for each device at most one registerWebhookSubscription retry loop is
\* in flight in every reachable state; a call made while an earlier one has
\* not completed returns at once and calls the provider no further.
C3_SingleRegistration ==
    /\ InFlight <= 1
    /\ regCall.event = "started" => regCall.inFlightBefore = 0

-----------------------------------------------------------------------------
(* Claims on the debounced capability listeners *)

ResolvedBy(k) == {i \in DOMAIN calls : calls[i].by = k}

LastOf(S) == CHOOSE i \in S : \A j \in S : j <= i

\* C7: calls of a debounced listener that each arrive less than 500ms after
\* the previous one are never resolved apart: they wait together and are
\* resolved by the same call of fn; each call of fn resolves at least one
\* caller and is made with the arguments of the last call it resolves; no
\* caller is resolved twice, and none is left waiting once no timeout is set.
C7_Debounce ==
    /\ \A i \in DOMAIN calls :
          (i > 1 /\ calls[i].gap < debounceWait) => calls[i].by = calls[i - 1].by
    /\ \A k \in DOMAIN invoked :
          /\ ResolvedBy(k) # {}
          /\ invoked[k] = calls[LastOf(ResolvedBy(k))].args
    /\ \A i \in DOMAIN calls : calls[i].by \in 0..Len(invoked)
    /\ timeouts = {} => \A i \in DOMAIN calls : calls[i].by # 0

\* C7 witness: three calls with different arguments, each less than 500ms
\* after the previous one, have been resolved by one call of fn.
C7_Witness ==
    /\ Len(calls) = 3
    /\ Len(invoked) = 1
    /\ calls[2].gap < debounceWait /\ calls[3].gap < debounceWait
    /\ calls[1].args # calls[3].args
    /\ \A i \in 1..3 : calls[i].by = 1

-----------------------------------------------------------------------------
(* Claims on the 'code' handler of login *)

\* C17: whenever the 'code' handler broadcasts "authorized", it has before
\* that created the final client under the session id it was given and saved
\* it, so that the session is stored and isAuthenticated() answers true.
C17_AuthorizedAfterPersist ==
    handled.authorized =>
        /\ handled.saved
        /\ handled.sid \in SeqSet(sessions)
        /\ isAuthenticated(sessions) = "true"

\* C18: the 'code' handler starts resetOAuth2Client with its session id on
\* every device, and a step that ends the reset of one device (its agreements
\* call is rejected, or answered) leaves the resets of all other devices
\* running.
C18_RebindEveryDevice ==
    /\ [](handled.authorized =>
            \A d \in Devices : [dev |-> d, sid |-> handled.sid, pc |-> "store"] \in resets)
    /\ [][\A r \in resets : r \in resets' \/ resets \ resets' = {r}]_vars

\* C18 witness: the agreements call of one device's reset has been rejected
\* while the reset of another device is still running.
C18_Witness ==
    /\ appCall.op = "resetOAuth2Client"
    /\ appCall.result = "rejected"
    /\ resets # {}

-----------------------------------------------------------------------------
(* Claims on the renewal timer and the teardown *)

\* C12: at most one renewal timer of the device is pending in every reachable
\* state; after an accepted payload with a numeric timeToLiveSeconds the only
\* pending timer is the one that payload armed, for its timeToLiveSeconds; and
\* when the timer has fired (registerWebhookSubscription was called by it) no
\* timer is left to fire again.
C12_SingleRenewalTimer ==
    /\ Cardinality(dev.timers) <= 1
    /\ (recon.did.status = "accepted" /\ recon.ttl) =>
          dev.timers = {[id |-> dev.timeoutHandle,
                         ms |-> recon.timeToLiveSeconds.v * 1000]}
    /\ regCall.caller = "timer" => dev.timers = {}

\* C12 witness: a second payload with a time to live has re-armed the timer
\* (the device holds the second handle), for a time to live of 1800 seconds.
C12_Witness ==
    /\ processed = 2
    /\ recon.did.status = "accepted"
    /\ recon.timeToLiveSeconds = Num(1800)
    /\ dev.timeoutHandle = 2
    /\ dev.timers = {[id |-> 2, ms |-> 1800000]}

\* C13: once onOAuth2Deleted has finished, it has not rejected (a failed
\* unsubscribe is not propagated) and no renewal timer is pending.
C13_TeardownBestEffort ==
    teardown \in {"resolved", "rejected"} =>
        /\ teardown = "resolved"
        /\ dev.timers = {}

-----------------------------------------------------------------------------
(* Claims on the registration calls *)

\* C14: a registerWebhookSubscription call that performed a registration ends
\* with the registering flag cleared; when it resolves the device warning is
\* cleared, when it rejects the device warning is set; and the flag is never
\* true while no call is in flight.
C14_RegistrationOutcome ==
    /\ regCall.event \in {"resolved", "rejected"} => ~registering
    /\ regCall.event = "resolved" => ~warning
    /\ regCall.event = "rejected" => warning
    /\ InFlight = 0 => ~registering

\* C15: a registration call waits at most 10 times, and its k-th wait is
\* 6000ms * 2^(k-1): 6s, 12s, 24s, ...
C15_BackoffSchedule ==
    \A l \in LoopsIn(loops) :
        /\ Len(l.run.waits) <= 10
        /\ \A k \in DOMAIN l.run.waits : l.run.waits[k] = 6000 * Pow2(k - 1)

\* C16: the registration call that onOAuth2Init makes never makes more than
\* 11 attempts and, every provider call, Homey call and wait completing, it
\* ends, resolved or rejected; onOAuth2Init, once it waits for the call and the
\* status, then marks the device available.
C16_RegistrationTerminates ==
    /\ [](\A l \in LoopsIn(loops) : l.run.calls <= retryTimes + 1)
    /\ (init.registration = "pending") ~> (init.registration \in {"resolved", "rejected"})
    /\ (init.pc = "waiting") ~> (init.pc = "available")

\* C16 witness: the call of onOAuth2Init has been rejected after 11 attempts
\* and the device is marked available.
C16_Witness ==
    /\ init.pc = "available"
    /\ init.registration = "rejected"
    /\ init.status = "pending"

-----------------------------------------------------------------------------
(* Thermostat writes *)

\* the step was a call of setTargetTemperature that sent its request
TargetCalled == written.event = "called" /\ written.call = "setTargetTemperature"

\* s is t rounded to the nearest half degree, both in hundredths
NearestHalf(s, t) == s % 50 = 0 /\ 2 * (s - t) <= 50 /\ 2 * (t - s) <= 50

\* C11 as stated: the request of an explicit target temperature t has the
\* setpoint 100 * (t rounded to the nearest half degree) and activeState -1,
\* and every other field of it is that of the thermostatInfo baseline.
C11_EveryOtherFieldBaseline ==
    TargetCalled =>
        /\ IsNumber(written.data.currentSetpoint)
        /\ NearestHalf(written.data.currentSetpoint.v, written.input.v)
        /\ written.data.activeState = Num(-1)
        /\ DOMAIN written.data = DOMAIN dev.thermostatInfo
        /\ \A f \in DOMAIN written.data \ {"currentSetpoint", "activeState"} :
                written.data[f] = dev.thermostatInfo[f]

\* C11, amended: the request of an explicit target temperature t has the
\* setpoint 100 * (t rounded to the nearest half degree), activeState -1 and
\* programState 2 (override), and every other field of it is that of the
\* thermostatInfo baseline; it is the request sent to the provider.
C11_TargetWrite ==
    TargetCalled =>
        /\ IsNumber(written.data.currentSetpoint)
        /\ NearestHalf(written.data.currentSetpoint.v, written.input.v)
        /\ written.data.activeState = Num(-1)
        /\ written.data.programState = Num(2)
        /\ DOMAIN written.data = DOMAIN dev.thermostatInfo
        /\ \A f \in DOMAIN written.data \ {"currentSetpoint", "activeState", "programState"} :
                written.data[f] = dev.thermostatInfo[f]
        /\ \E w \in Requests : w.call = written.call /\ w.data = written.data

\* 21.3 is written as 2150 over a baseline a payload has stored
C11_Witness ==
    /\ TargetCalled
    /\ written.input = Num(2130)
    /\ written.data.currentSetpoint = Num(2150)
    /\ written.data.currentDisplayTemp = Num(2051)
    /\ dev.thermostatInfo.programState = Num(1)

\* C19: setTargetTemperature(t) with a number t calls for target_temperature
\* = t while its request is still unanswered; when the request fails the call
\* rejects with the user-facing error and no capability is touched (no
\* rollback, the preset indicator as it was); when it succeeds the preset
\* indicator is set to "none" and the call resolves with t.
C19_OptimisticTarget ==
    written.call = "setTargetTemperature" =>
        /\ written.event = "called" =>
            /\ written.emitted["target_temperature"] = Value(written.temperature.v)
            /\ written.refused = {} =>
                    dev.caps["target_temperature"] = Value(written.temperature.v)
            /\ \E w \in Requests :
                    w.call = written.call /\ w.temperature = written.temperature
        /\ written.event = "rejected" =>
            /\ written.answer = "failed"
            /\ written.error = "error_set_target_temperature"
            /\ written.emitted = Emitted({})
            /\ dev.caps = written.capsBefore
        /\ written.event = "resolved" =>
            /\ written.answer = "ok"
            /\ written.emitted["temperature_state"] = Value("none")
            /\ written.refused = {} => dev.caps["temperature_state"] = Value("none")
            /\ dev.caps["target_temperature"] = written.capsBefore["target_temperature"]
            /\ written.value = written.temperature
        /\ written.event # "threw"

\* a failed write leaves the optimistic 21.5 and the preset "home" in place
C19_Witness ==
    /\ written.call = "setTargetTemperature"
    /\ written.event = "rejected"
    /\ written.temperature = Num(215)
    /\ dev.caps["target_temperature"] = Value(215)
    /\ dev.caps["temperature_state"] = Value("home")

\* the step was the provider accepting a request of updateState
PresetWritten == written.call = "updateState" /\ written.answer = "ok"

\* the preset of the request has an id (it is not "none" and not an unknown
\* name) and temperatureStatesMap has a setpoint for it
SetpointKnown ==
    LET stateId == written.data.activeState IN
    /\ IsNumber(stateId)
    /\ stateId.v \in PresetIds
    /\ IsNumber(dev.temperatureStatesMap[stateId.v])

\* C20: after a successful preset write, target_temperature is set to the
\* preset's setpoint if that setpoint is known and the preset is not "none";
\* otherwise target_temperature is left unchanged and the call resolves with
\* the preset name.
C20_PresetSetpoint ==
    PresetWritten =>
        IF SetpointKnown
        THEN written.emitted["target_temperature"] =
                Value(RoundToTenth(dev.temperatureStatesMap[written.data.activeState.v].v))
        ELSE /\ written.emitted["target_temperature"] = NoValue("target_temperature")
             /\ dev.caps["target_temperature"] = written.capsBefore["target_temperature"]
             /\ written.event = "resolved"
             /\ written.value = written.state

-----------------------------------------------------------------------------
(* Reconciliation: humidity, error isolation *)

\* C21: when an accepted payload carries a numeric humidity and the device
\* does not expose measure_humidity, reconciling it adds the capability and
\* sets its value: once no addCapability is pending, the device exposes
\* measure_humidity with the humidity of the payload.
C21_HumidityAddedAndSet ==
    (recon.did.status = "accepted" /\ "thermostatInfo" \in recon.did.sections
        /\ IsNumber(dev.thermostatInfo.currentHumidity)) =>
        \/ dev.addingHumidity
        \/ /\ dev.hasHumidity
           /\ dev.caps["measure_humidity"] = Value(dev.thermostatInfo.currentHumidity.v)

\* C22: processStatusUpdate never throws, and whatever fails in one field,
\* every power, gas and thermostat-info section the payload carries is
\* applied.
C22_ReconcileIsolated ==
    /\ recon.did.status # "threw"
    /\ recon.did.status = "accepted" =>
            (recon.carried \ {"thermostatStates"}) \subseteq recon.did.sections

\* what C23 calls the device state
Observable(d) ==
    <<d.temperatureStatesMap, d.powerUsage, d.gasUsage, d.thermostatInfo,
      d.hasHumidity, d.caps>>

\* the payload of the last call was accepted and none of its capability
\* updates was rejected
AppliedInFull(r, d) ==
    /\ r.did.status = "accepted"
    /\ \A c \in CapNames : r.did.emitted[c].set => d.caps[c] = r.did.emitted[c]

\* the step hands processStatusUpdate the payload it was handed last: the
\* same envelope, the same sections with the same content
SamePayloadAgain ==
    /\ processed' = processed + 1
    /\ AppliedInFull(recon, dev) /\ AppliedInFull(recon', dev')
    /\ recon'.commonName = recon.commonName
    /\ recon'.timeToLiveSeconds = recon.timeToLiveSeconds
    /\ recon'.carried = recon.carried
    /\ recon'.did.sections = recon.did.sections
    /\ "thermostatStates" \in recon.carried =>
            dev'.temperatureStatesMap = dev.temperatureStatesMap
    /\ "powerUsage" \in recon.carried => dev'.powerUsage = dev.powerUsage
    /\ "gasUsage" \in recon.carried => dev'.gasUsage = dev.gasUsage
    /\ "thermostatInfo" \in recon.carried => dev'.thermostatInfo = dev.thermostatInfo

\* C23: reconciliation is idempotent: handing processStatusUpdate the
\* payload it was handed last leaves the device state (preset temperatures,
\* stored power, gas and thermostat data, exposed capabilities and their
\* values) as the first application left it.
C23_Idempotent ==
    [][SamePayloadAgain => Observable(dev') = Observable(dev)]_vars

-----------------------------------------------------------------------------
(* Renewal and teardown *)

\* C24: the renewal timer armed by an accepted payload calls
\* registerWebhookSubscription when it fires, and a firing while a
\* registration call is in flight starts no second one.
\* (A call is counted as a registration in flight while its provider call is
\* pending or it waits to retry it.)
C24_RenewalStartsNoSecond ==
    LET busy == {l \in LoopsIn(loops) : l.at \in {"subscribe", "wait"}} IN
    regCall.caller = "timer" =>
        /\ regCall.event \in {"started", "noop"}
        /\ regCall.event = "started" =>
                /\ Cardinality(busy) <= 1
                /\ \A l \in busy : CopiesIn(l, loops) = 1

-----------------------------------------------------------------------------
(* ToonDevice.resetOAuth2Client *)

\* C25: resetOAuth2Client binds the client of the session only when the app
\* has one: with none the device is marked unavailable and keeps the client
\* it had; with one the device is bound to it, and when the call has ended
\* the device is available iff the agreements list holds its agreementId,
\* and unavailable otherwise.
C25_ResetSwap ==
    LET d == appCall.dev IN
    appCall.op = "resetOAuth2Client" =>
        /\ appCall.result = "noClient" =>
                ~devAvailable[d] /\ devClient[d] = appCall.boundBefore
        /\ appCall.result = "bound" => devClient[d] = appCall.sid
        /\ appCall.result \in {"listed", "notListed", "rejected"} =>
                (devAvailable[d] <=> appCall.result = "listed")

-----------------------------------------------------------------------------
(* programState of the writes *)

\* C26: the programState of a target temperature request is the one a preset
\* request carries when resume is false, and differs from the one a preset
\* request carries when resume is true.
C26_OverrideProgramState ==
    \A t \in Requests, p \in Requests :
        (t.call = "setTargetTemperature" /\ p.call = "updateState") =>
            IF p.keepProgram
            THEN t.data.programState # p.data.programState
            ELSE t.data.programState = p.data.programState

\* C26 (as the code has it): the programState of a target temperature request
\* is 2, the one a preset request carries when resume is true, and differs
\* from the one (0) a preset request carries when resume is false.
C26_TemporaryOverride ==
    \A t \in Requests :
        /\ t.call = "setTargetTemperature" => t.data.programState = Num(2)
        /\ t.call = "updateState" =>
                t.data.programState = IF t.keepProgram THEN Num(2) ELSE Num(0)

C26_Witness ==
    \E t \in Requests, p \in Requests :
        /\ t.call = "setTargetTemperature"
        /\ p.call = "updateState"
        /\ p.keepProgram
        /\ t.data.programState = p.data.programState

-----------------------------------------------------------------------------
(* Removal *)

\* C27: once onOAuth2Deleted has finished, no step of the device issues a
\* provider subscribe call, whatever registration call or renewal timer was
\* running when it was removed.
C27_NoSubscribeAfterTeardown ==
    [][teardown = "resolved" =>
            \A l \in LoopsIn(loops') :
                l.at = "subscribe" => CopiesIn(l, loops') <= CopiesIn(l, loops)]_vars

-----------------------------------------------------------------------------
(* ToonOAuth2Client.registerWebhookSubscription *)

\* C28: a registerWebhookSubscription({id}) call sends its POST after its
\* DELETE was answered, also when the DELETE failed, and ends as its POST
\* does; as long as the provider has answered every DELETE by removing the
\* subscription, the agreement holds at most one subscription of the
\* application.
C28_SingleSubscription ==
    /\ \A c \in BagToSet(clientCalls) : c.deleted => c.pc = "post"
    /\ clientCall.event = "resolved" <=> clientCall.posted
    /\ provider.honoured => provider.subs <= 1

====
